---- MODULE Spec2Model ----
(***************************************************************************)
(* Model of odm_controller (src/odm_controller.py): the mapping-driven     *)
(* builder of ODM requests, its transform pipeline, its typed-variable     *)
(* collections, its required-target validation and the engine's            *)
(* "last built request" slot.                                              *)
(*                                                                         *)
(* Python values are records [t, s, n, l]: t is the Python type, s the     *)
(* characters of a str (or the ISO text of a date), n the number of an     *)
(* int, float or bool, l the elements of a list.  Strings are sequences    *)
(* of one-character strings, so that strip, split, casing, iteration over  *)
(* a string and number parsing are computed and not assumed.  Floats are   *)
(* integral: the input alphabet has no "." and no exponent.                *)
(***************************************************************************)
EXTENDS Integers, Sequences, FiniteSets, TLC

\* odm_request[e]: self.odm_request of engine instance e, <<>> (None) or <<request>>
\* call[e]:        the last public call made on e, its arguments and its outcome
\* ncalls:         the number of public calls made so far
\* probe:          the last direct call of a helper (_apply_transform, _add_var)
\* built[e]:       whether a build has returned on e (history, read by no code)
VARIABLES odm_request, call, ncalls, probe, built

vars == <<odm_request, call, ncalls, probe, built>>

----------------------------------------------------------------------------
(* Python values *)

V(t, s, n, l) == [t |-> t, s |-> s, n |-> n, l |-> l]

PyNone == V("none", <<>>, 0, <<>>)

PyStr(cs) == V("str", cs, 0, <<>>)

PyInt(k) == V("int", <<>>, k, <<>>)

PyFloat(k) == V("float", <<>>, k, <<>>)

PyBool(b) == V("bool", <<>>, IF b THEN 1 ELSE 0, <<>>)

PyList(xs) == V("list", <<>>, 0, xs)

PyDate(cs) == V("date", cs, 0, <<>>)

\* The outcome of an expression that may raise: err is "none" or the exception.
Ok(v) == [err |-> "none", value |-> v]

Raise(e) == [err |-> e, value |-> PyNone]

\* bool(value)
Truthy(v) ==
    CASE v.t = "none" -> FALSE
      [] v.t = "str" -> v.s # <<>>
      [] v.t = "list" -> v.l # <<>>
      [] v.t \in {"int", "float", "bool"} -> v.n # 0
      [] OTHER -> TRUE

\* dict keys must be hashable: a list is not
Hashable(v) == v.t # "list"

----------------------------------------------------------------------------
(* Characters and strings *)

Digits == {"0", "1", "2", "3", "4", "5", "6", "7", "8", "9"}

DigitVal ==
    "0" :> 0 @@ "1" :> 1 @@ "2" :> 2 @@ "3" :> 3 @@ "4" :> 4 @@
    "5" :> 5 @@ "6" :> 6 @@ "7" :> 7 @@ "8" :> 8 @@ "9" :> 9

DigitChar == <<"0", "1", "2", "3", "4", "5", "6", "7", "8", "9">>

UpperOf ==
    "a" :> "A" @@ "b" :> "B" @@ "n" :> "N" @@ "p" :> "P" @@ "r" :> "R" @@ "s" :> "S" @@ "t" :> "T"

LowerOf ==
    "A" :> "a" @@ "B" :> "b" @@ "N" :> "n" @@ "P" :> "p" @@ "R" :> "r" @@ "S" :> "s" @@ "T" :> "t"

RECURSIVE LStrip(_)
LStrip(cs) == IF cs # <<>> /\ Head(cs) = " " THEN LStrip(Tail(cs)) ELSE cs

RECURSIVE RStrip(_)
RStrip(cs) ==
    IF cs # <<>> /\ cs[Len(cs)] = " " THEN RStrip(SubSeq(cs, 1, Len(cs) - 1)) ELSE cs

\* str.strip()
StrStrip(cs) == RStrip(LStrip(cs))

\* str.upper() and str.lower()
StrUpper(cs) == [i \in 1..Len(cs) |-> IF cs[i] \in DOMAIN UpperOf THEN UpperOf[cs[i]] ELSE cs[i]]

StrLower(cs) == [i \in 1..Len(cs) |-> IF cs[i] \in DOMAIN LowerOf THEN LowerOf[cs[i]] ELSE cs[i]]

\* str.replace(";", ",")
ReplaceSemicolon(cs) == [i \in 1..Len(cs) |-> IF cs[i] = ";" THEN "," ELSE cs[i]]

\* str.split(","): the pieces between commas, empty pieces kept
RECURSIVE SplitComma(_, _)
SplitComma(cs, cur) ==
    IF cs = <<>> THEN <<cur>>
    ELSE IF Head(cs) = "," THEN <<cur>> \o SplitComma(Tail(cs), <<>>)
    ELSE SplitComma(Tail(cs), Append(cur, Head(cs)))

AllDigits(cs) == cs # <<>> /\ \A i \in 1..Len(cs) : cs[i] \in Digits

RECURSIVE DigitsVal(_, _)
DigitsVal(cs, acc) ==
    IF cs = <<>> THEN acc ELSE DigitsVal(Tail(cs), 10 * acc + DigitVal[Head(cs)])

\* The text of a number: an optional sign and decimal digits, blanks around it ignored.
NumBody(cs) ==
    LET s == StrStrip(cs)
    IN  IF s # <<>> /\ Head(s) \in {"+", "-"} THEN Tail(s) ELSE s

NumParses(cs) == AllDigits(NumBody(cs))

NumVal(cs) ==
    LET s == StrStrip(cs)
    IN  IF Head(s) = "-" THEN 0 - DigitsVal(NumBody(cs), 0) ELSE DigitsVal(NumBody(cs), 0)

RECURSIVE NatChars(_)
NatChars(k) ==
    IF k < 10 THEN <<DigitChar[k + 1]>> ELSE Append(NatChars(k \div 10), DigitChar[(k % 10) + 1])

IntChars(k) == IF k < 0 THEN <<"-">> \o NatChars(0 - k) ELSE NatChars(k)

\* Zero-padded decimal of width w (strftime's %Y, %m, %d)
RECURSIVE Pad(_, _)
Pad(cs, w) == IF Len(cs) < w THEN Pad(<<"0">> \o cs, w) ELSE cs

----------------------------------------------------------------------------
(* Built-in conversions float(), int(), str() *)

ToFloat(v) ==
    CASE v.t \in {"int", "float", "bool"} -> Ok(PyFloat(v.n))
      [] v.t = "str" -> IF NumParses(v.s) THEN Ok(PyFloat(NumVal(v.s))) ELSE Raise("ValueError")
      [] OTHER -> Raise("TypeError")

ToInt(v) ==
    CASE v.t \in {"int", "float", "bool"} -> Ok(PyInt(v.n))
      [] v.t = "str" -> IF NumParses(v.s) THEN Ok(PyInt(NumVal(v.s))) ELSE Raise("ValueError")
      [] OTHER -> Raise("TypeError")

\* str() of a value that is not a list
ScalarText(v) ==
    CASE v.t = "str" -> v.s
      [] v.t = "date" -> v.s
      [] v.t = "int" -> IntChars(v.n)
      [] v.t = "float" -> IntChars(v.n) \o <<".", "0">>
      [] v.t = "bool" -> IF v.n = 1 THEN <<"T", "r", "u", "e">> ELSE <<"F", "a", "l", "s", "e">>
      [] OTHER -> <<"N", "o", "n", "e">>

\* repr() of a list element
ElemRepr(v) == IF v.t = "str" THEN <<"'">> \o v.s \o <<"'">> ELSE ScalarText(v)

RECURSIVE JoinRepr(_)
JoinRepr(xs) ==
    IF xs = <<>> THEN <<>>
    ELSE IF Len(xs) = 1 THEN ElemRepr(xs[1])
    ELSE ElemRepr(Head(xs)) \o <<",", " ">> \o JoinRepr(Tail(xs))

ToStr(v) ==
    IF v.t = "list" THEN PyStr(<<"[">> \o JoinRepr(v.l) \o <<"]">>) ELSE PyStr(ScalarText(v))

----------------------------------------------------------------------------
(* Dates: _normalize_date, with datetime.strptime and date.fromisoformat *)

ODM_DATE_FORMAT == <<"%", "Y", "-", "%", "m", "-", "%", "d">>

IsLeap(y) == (y % 4 = 0 /\ y % 100 # 0) \/ y % 400 = 0

DaysIn(y, m) ==
    IF m = 2 THEN (IF IsLeap(y) THEN 29 ELSE 28)
    ELSE IF m \in {4, 6, 9, 11} THEN 30 ELSE 31

ValidDate(y, m, d) == y >= 1 /\ m \in 1..12 /\ d >= 1 /\ d <= DaysIn(y, m)

NoParse == [ok |-> FALSE, y |-> 0, m |-> 0, d |-> 0]

\* How many characters a %d or %m field takes: two digits when they form a value
\* up to hi, else one non-zero digit, else none (no match).
FieldLen(s, hi) ==
    IF Len(s) >= 2 /\ s[1] \in Digits /\ s[2] \in Digits
       /\ DigitsVal(SubSeq(s, 1, 2), 0) \in 1..hi
    THEN 2
    ELSE IF Len(s) >= 1 /\ s[1] \in Digits /\ s[1] # "0" THEN 1 ELSE 0

\* datetime.strptime(s, fmt) for the directives %d, %m, %Y and literal characters;
\* the fields not given default to 1900-01-01.
RECURSIVE ParseFmt(_, _, _)
ParseFmt(s, f, acc) ==
    IF f = <<>> THEN (IF s = <<>> THEN acc ELSE NoParse)
    ELSE IF Head(f) = "%" /\ Len(f) >= 2 THEN
        LET rest == SubSeq(f, 3, Len(f))
        IN  CASE f[2] = "d" ->
                   LET k == FieldLen(s, 31)
                   IN  IF k = 0 THEN NoParse
                       ELSE ParseFmt(SubSeq(s, k + 1, Len(s)), rest,
                                     [acc EXCEPT !.d = DigitsVal(SubSeq(s, 1, k), 0)])
              [] f[2] = "m" ->
                   LET k == FieldLen(s, 12)
                   IN  IF k = 0 THEN NoParse
                       ELSE ParseFmt(SubSeq(s, k + 1, Len(s)), rest,
                                     [acc EXCEPT !.m = DigitsVal(SubSeq(s, 1, k), 0)])
              [] f[2] = "Y" ->
                   IF Len(s) >= 4 /\ AllDigits(SubSeq(s, 1, 4))
                   THEN ParseFmt(SubSeq(s, 5, Len(s)), rest,
                                 [acc EXCEPT !.y = DigitsVal(SubSeq(s, 1, 4), 0)])
                   ELSE NoParse
              [] OTHER -> NoParse
    ELSE IF s # <<>> /\ Head(s) = Head(f) THEN ParseFmt(Tail(s), Tail(f), acc)
    ELSE NoParse

Strptime(s, f) ==
    LET p == ParseFmt(s, f, [ok |-> TRUE, y |-> 1900, m |-> 1, d |-> 1])
    IN  IF p.ok /\ ValidDate(p.y, p.m, p.d) THEN p ELSE NoParse

\* date.fromisoformat(s): exactly YYYY-MM-DD
FromIsoFormat(s) ==
    IF Len(s) = 10 /\ s[5] = "-" /\ s[8] = "-"
       /\ AllDigits(SubSeq(s, 1, 4)) /\ AllDigits(SubSeq(s, 6, 7)) /\ AllDigits(SubSeq(s, 9, 10))
    THEN LET y == DigitsVal(SubSeq(s, 1, 4), 0)
             m == DigitsVal(SubSeq(s, 6, 7), 0)
             d == DigitsVal(SubSeq(s, 9, 10), 0)
         IN  IF ValidDate(y, m, d) THEN [ok |-> TRUE, y |-> y, m |-> m, d |-> d] ELSE NoParse
    ELSE NoParse

\* date.strftime(ODM_DATE_FORMAT)
RECURSIVE Strftime(_, _)
Strftime(p, f) ==
    IF f = <<>> THEN <<>>
    ELSE IF Head(f) = "%" /\ Len(f) >= 2 THEN
        (CASE f[2] = "Y" -> Pad(NatChars(p.y), 4)
           [] f[2] = "m" -> Pad(NatChars(p.m), 2)
           [] f[2] = "d" -> Pad(NatChars(p.d), 2)
           [] OTHER -> <<>>) \o Strftime(p, SubSeq(f, 3, Len(f)))
    ELSE <<Head(f)>> \o Strftime(p, Tail(f))

_normalize_date(v, fmt_in) ==
    IF v.t = "none" \/ (v.t = "str" /\ v.s = <<>>) THEN Ok(PyNone)
    ELSE IF v.t = "date" THEN Ok(PyStr(Strftime(FromIsoFormat(v.s), ODM_DATE_FORMAT)))
    ELSE IF v.t = "str" THEN
        LET s == StrStrip(v.s)
            p == IF Truthy(fmt_in) THEN Strptime(s, fmt_in.s)
                 ELSE FromIsoFormat(SubSeq(s, 1, IF Len(s) < 10 THEN Len(s) ELSE 10))
        IN  IF p.ok THEN Ok(PyStr(Strftime(p, ODM_DATE_FORMAT))) ELSE Raise("ValueError")
    ELSE Raise("ValueError")

----------------------------------------------------------------------------
(* Rules and their directives *)

\* A dict of the mapping document with string keys; has = the directive is a dict.
NoTable == [has |-> FALSE, d |-> <<>>]

Table(f) == [has |-> TRUE, d |-> f]

\* dict.get(key, dflt) on a dict whose keys are strings
DictGet(d, key, dflt) == IF key.t = "str" /\ key.s \in DOMAIN d THEN d[key.s] ELSE dflt

\* cfg == {}: no directive
EmptyCfg ==
    [has_default |-> FALSE, default |-> PyNone, map_from |-> NoTable, map |-> NoTable,
     split_csv |-> FALSE, has_date_in |-> FALSE, date_in |-> PyNone, as_date |-> FALSE,
     strip |-> FALSE, upper |-> FALSE, lower |-> FALSE, bool_map |-> NoTable,
     has_scale |-> FALSE, scale |-> PyNone]

\* spec.get("from") of a rule without "from"
NoKey == "<None>"

\* The shorthand "odm_name": "source_key"
Shorthand(k) == [shorthand |-> TRUE, from |-> k, cfg |-> EmptyCfg]

Full(k, c) == [shorthand |-> FALSE, from |-> k, cfg |-> c]

SrcKey(spec) == spec.from

CfgOf(spec) == IF spec.shorthand THEN EmptyCfg ELSE spec.cfg

----------------------------------------------------------------------------
(* _apply_transform: the steps in the order of the code.  The result names *)
(* the step that raised: 2 substitution, 4 date, 6 boolean substitution.   *)

Done(v) == [err |-> "none", step |-> 0, value |-> v]

Fail(e, k) == [err |-> e, step |-> k, value |-> PyNone]

IsBlank(v) == v.t = "none" \/ (v.t = "str" /\ StrStrip(v.s) = <<>>)

\* cfg.get("map_from") or cfg.get("map"): an empty dict is falsy
MapFromOf(cfg) ==
    IF cfg.map_from.has /\ DOMAIN cfg.map_from.d # {} THEN cfg.map_from ELSE cfg.map

\* [t.strip() for t in value.replace(";", ",").split(",") if t.strip()]
RECURSIVE Tokens(_)
Tokens(parts) ==
    IF parts = <<>> THEN <<>>
    ELSE LET t == StrStrip(Head(parts))
         IN  (IF t # <<>> THEN <<PyStr(t)>> ELSE <<>>) \o Tokens(Tail(parts))

SplitCsv(v) == PyList(Tokens(SplitComma(ReplaceSemicolon(v.s), <<>>)))

Casing(v, cfg) ==
    IF v.t # "str" THEN v
    ELSE LET a == IF cfg.strip THEN StrStrip(v.s) ELSE v.s
             b == IF cfg.upper THEN StrUpper(a) ELSE a
             c == IF cfg.lower THEN StrLower(b) ELSE b
         IN  PyStr(c)

\* float(value) * float(cfg["scale"]); any exception leaves the value as it is
Scale(v, cfg) ==
    IF cfg.has_scale /\ v.t # "none"
    THEN LET a == ToFloat(v)
             b == ToFloat(cfg.scale)
         IN  IF a.err = "none" /\ b.err = "none" THEN PyFloat(a.value.n * b.value.n) ELSE v
    ELSE v

BoolMapStep(v, cfg) ==
    IF cfg.bool_map.has
    THEN IF Hashable(v)
         THEN Done(Scale(DictGet(cfg.bool_map.d, v, PyBool(Truthy(v))), cfg))
         ELSE Fail("TypeError", 6)
    ELSE Done(Scale(v, cfg))

\* r is what _normalize_date did: its exception propagates
AfterDate(r, cfg) ==
    IF r.err = "none" THEN BoolMapStep(Casing(r.value, cfg), cfg) ELSE Fail(r.err, 4)

DateStep(v, cfg) ==
    IF cfg.has_date_in \/ cfg.as_date THEN AfterDate(_normalize_date(v, cfg.date_in), cfg)
    ELSE BoolMapStep(Casing(v, cfg), cfg)

SplitStep(v, cfg) == DateStep(IF cfg.split_csv /\ v.t = "str" THEN SplitCsv(v) ELSE v, cfg)

MapStep(v, cfg) ==
    LET map_from == MapFromOf(cfg)
    IN  IF map_from.has
        THEN IF Hashable(v) THEN SplitStep(DictGet(map_from.d, v, v), cfg)
             ELSE Fail("TypeError", 2)
        ELSE SplitStep(v, cfg)

_apply_transform(value, cfg) ==
    MapStep(IF IsBlank(value) /\ cfg.has_default THEN cfg.default ELSE value, cfg)

----------------------------------------------------------------------------
(* _add_var: the typed-variable collections of coRequest *)

CollKeys ==
    <<"dateVariables", "doubleVariables", "integerVariables", "stringVariables",
      "listOfDoubleVariables">>

CollKeySet == {CollKeys[i] : i \in 1..Len(CollKeys)}

VTypes == <<"date", "double", "integer", "string", "list_double">>

VTypeSet == {VTypes[i] : i \in 1..Len(VTypes)}

\* The collection a variable type is appended to
CollOf(vtype) == CollKeys[CHOOSE i \in 1..Len(VTypes) : VTypes[i] = vtype]

Entry(name, value) == [name |-> name, value |-> value]

\* co is a dict in insertion order: a sequence of <<key, item>>, an item being a
\* scalar field (v) or a collection (es, its entries)
Scalar(v) == [coll |-> FALSE, v |-> v, es |-> <<>>]

Coll(es) == [coll |-> TRUE, v |-> PyNone, es |-> es]

Keys(co) == {co[i][1] : i \in 1..Len(co)}

Lookup(co, k) == co[CHOOSE i \in 1..Len(co) : co[i][1] = k][2]

\* co[k] = item: a dict keeps the place of a key it has
RECURSIVE DictSet(_, _, _)
DictSet(co, k, item) ==
    IF co = <<>> THEN <<(<<k, item>>)>>
    ELSE IF Head(co)[1] = k THEN <<(<<k, item>>)>> \o Tail(co)
    ELSE <<Head(co)>> \o DictSet(Tail(co), k, item)

\* [float(x) for x in xs]: the first element that does not convert raises
RECURSIVE FloatAll(_)
FloatAll(xs) ==
    IF xs = <<>> THEN Ok(PyList(<<>>))
    ELSE LET h == ToFloat(Head(xs))
         IN  IF h.err # "none" THEN Raise(h.err)
             ELSE LET r == FloatAll(Tail(xs))
                  IN  IF r.err # "none" THEN r ELSE Ok(PyList(<<h.value>> \o r.value.l))

\* Iterating a str yields its characters
Chars(v) == [i \in 1..Len(v.s) |-> PyStr(<<v.s[i]>>)]

\* vals of the list_double branch
ListDoubleVals(value) ==
    IF value.t = "list" THEN FloatAll(value.l)
    ELSE IF ~Truthy(value) THEN Ok(PyList(<<>>))
    ELSE IF value.t = "str" THEN FloatAll(Chars(value))
    ELSE Raise("TypeError")

\* The value an entry of the given type carries, or the exception of the coercion
Coerce(vtype, value) ==
    CASE vtype \in {"date", "string"} -> Ok(ToStr(value))
      [] vtype = "double" -> ToFloat(value)
      [] vtype = "integer" -> ToInt(value)
      [] vtype = "list_double" -> ListDoubleVals(value)
      [] OTHER -> Raise("ValueError")

\* co.setdefault(key, []).append(entry)
AppendTo(co, key, e) ==
    IF key \in Keys(co) THEN DictSet(co, key, Coll(Append(Lookup(co, key).es, e)))
    ELSE Append(co, <<key, Coll(<<e>>)>>)

\* c is the coerced value: the exception of the coercion propagates
AppendCoerced(co, vtype, name, c) ==
    IF c.err # "none" THEN [err |-> c.err, co |-> co]
    ELSE [err |-> "none", co |-> AppendTo(co, CollOf(vtype), Entry(name, c.value))]

\* The result is the exception raised ("none": returned) and co after the call.
_add_var(co, vtype, name, value) ==
    IF value.t = "none" THEN [err |-> "none", co |-> co]
    ELSE IF vtype \notin VTypeSet THEN [err |-> "ValueError", co |-> co]
    ELSE AppendCoerced(co, vtype, name, Coerce(vtype, value))

----------------------------------------------------------------------------
(* _build_by_odm_keys *)

\* The state of one run of _build_by_odm_keys: the exception raised so far (and
\* what raised it), co and produced_targets.
Start == [err |-> "none", why |-> "none", co |-> <<>>, produced |-> <<>>]

Abort(st, e, why) == [st EXCEPT !.err = e, !.why = why]

\* lines 105-107
RECURSIVE ConstFieldsLoop(_, _)
ConstFieldsLoop(items, st) ==
    IF items = <<>> THEN st
    ELSE ConstFieldsLoop(Tail(items),
                         [st EXCEPT !.co = DictSet(@, Head(items)[1], Scalar(Head(items)[2]))])

\* What raised when _apply_transform did (r)
TransformWhy(r) == IF r.step = 4 THEN "date" ELSE "transform"

\* lines 118-120, r being what _apply_transform did
SetMapped(st, odm_name, r) ==
    IF r.err # "none" THEN Abort(st, r.err, TransformWhy(r))
    ELSE [st EXCEPT !.co = DictSet(@, odm_name, Scalar(r.value)),
                    !.produced = Append(@, odm_name)]

\* lines 111-124: one scalar rule
CoFieldStep(odm_name, spec, external_flat, st) ==
    IF SrcKey(spec) \in DOMAIN external_flat
    THEN SetMapped(st, odm_name, _apply_transform(external_flat[SrcKey(spec)], CfgOf(spec)))
    ELSE IF CfgOf(spec).has_default
    THEN [st EXCEPT !.co = DictSet(@, odm_name, Scalar(CfgOf(spec).default)),
                    !.produced = Append(@, odm_name)]
    ELSE st

\* lines 110-124
RECURSIVE CoFieldsLoop(_, _, _)
CoFieldsLoop(items, external_flat, st) ==
    IF items = <<>> \/ st.err # "none" THEN st
    ELSE CoFieldsLoop(Tail(items), external_flat,
                      CoFieldStep(Head(items)[1], Head(items)[2], external_flat, st))

\* line 127: the five keys are set to [], each replacing a scalar of its name
RECURSIVE SetEmpty(_, _)
SetEmpty(co, keys) ==
    IF keys = <<>> THEN co ELSE SetEmpty(DictSet(co, Head(keys), Coll(<<>>)), Tail(keys))

InitCollections(st) == [st EXCEPT !.co = SetEmpty(@, CollKeys)]

\* What raised when _add_var did
AddVarWhy(vtype) == IF vtype \in VTypeSet THEN "coercion" ELSE "unsupported_type"

\* _add_var and produced_targets.append(name), a being what _add_var did
Added(st, vtype, name, a) ==
    IF a.err # "none" THEN Abort(st, a.err, AddVarWhy(vtype))
    ELSE [st EXCEPT !.co = a.co, !.produced = Append(@, name)]

\* lines 132-133: one constant variable
ConstVarStep(vtype, name, value, st) == Added(st, vtype, name, _add_var(st.co, vtype, name, value))

RECURSIVE ConstVarsOfType(_, _, _)
ConstVarsOfType(vtype, items, st) ==
    IF items = <<>> \/ st.err # "none" THEN st
    ELSE ConstVarsOfType(vtype, Tail(items),
                         ConstVarStep(vtype, Head(items)[1], Head(items)[2], st))

\* lines 130-133
RECURSIVE ConstVarsLoop(_, _)
ConstVarsLoop(groups, st) ==
    IF groups = <<>> \/ st.err # "none" THEN st
    ELSE ConstVarsLoop(Tail(groups), ConstVarsOfType(Head(groups)[1], Head(groups)[2], st))

\* lines 138-151: one typed-variable rule
\* lines 145-147, r being what _apply_transform did
AddMapped(st, vtype, odm_name, r) ==
    IF r.err # "none" THEN Abort(st, r.err, TransformWhy(r))
    ELSE Added(st, vtype, odm_name, _add_var(st.co, vtype, odm_name, r.value))

VariableStep(vtype, odm_name, spec, external_flat, st) ==
    IF SrcKey(spec) \in DOMAIN external_flat
    THEN AddMapped(st, vtype, odm_name,
                   _apply_transform(external_flat[SrcKey(spec)], CfgOf(spec)))
    ELSE IF CfgOf(spec).has_default
    THEN Added(st, vtype, odm_name, _add_var(st.co, vtype, odm_name, CfgOf(spec).default))
    ELSE st

RECURSIVE VariablesOfType(_, _, _, _)
VariablesOfType(vtype, items, external_flat, st) ==
    IF items = <<>> \/ st.err # "none" THEN st
    ELSE VariablesOfType(vtype, Tail(items), external_flat,
                         VariableStep(vtype, Head(items)[1], Head(items)[2], external_flat, st))

\* lines 136-151
RECURSIVE VariablesLoop(_, _, _)
VariablesLoop(groups, external_flat, st) ==
    IF groups = <<>> \/ st.err # "none" THEN st
    ELSE VariablesLoop(Tail(groups), external_flat,
                       VariablesOfType(Head(groups)[1], Head(groups)[2], external_flat, st))

\* The cleanup left out: every key stays, empty or not
PopEmpty_KeepsAll(co) == co

\* lines 154-156: pop those of the five keys whose collection is empty
PopEmpty(co) == SelectSeq(co, LAMBDA kv : ~(kv[1] \in CollKeySet /\ kv[2].es = <<>>))

\* (self.odm_request or {}).get("__DecisionID__"); the slot is <<>> (None) or <<request>>
HeldId(slot) == IF slot = <<>> THEN PyNone ELSE slot[1].DecisionID

\* f"Decision_{uuid4().hex[:12]}", the token being the part uuid4 gives
FreshId(tok) == PyStr(<<"D", "e", "c", "i", "s", "i", "o", "n", "_">> \o tok)

\* The or-chain in another order: the held identifier before the override
DecId_HeldFirst(decision_id, slot, tok) ==
    IF Truthy(HeldId(slot)) THEN HeldId(slot)
    ELSE IF Truthy(decision_id) THEN decision_id
    ELSE FreshId(tok)

\* The or-chain without its first operand: the override is not looked at
DecId_IgnoresOverride(decision_id, slot, tok) ==
    IF Truthy(HeldId(slot)) THEN HeldId(slot) ELSE FreshId(tok)

\* line 159: decision_id or held identifier or a fresh one
DecId(decision_id, slot, tok) ==
    IF Truthy(decision_id) THEN decision_id
    ELSE IF Truthy(HeldId(slot)) THEN HeldId(slot)
    ELSE FreshId(tok)

Request(dec_id, co) == [DecisionID |-> dec_id, coRequest |-> co]

\* The run of the loops of lines 102-151
Resolve(external_flat, mapping) ==
    VariablesLoop(mapping.variables, external_flat,
        ConstVarsLoop(mapping.constants_variables,
            InitCollections(
                CoFieldsLoop(mapping.co_fields, external_flat,
                    ConstFieldsLoop(mapping.constants_co_fields, Start)))))

\* lines 153-161 once the loops have run to st: the exception they raised, or the
\* cleanup, the identifier and the return
Finish(st, slot, decision_id, tok) ==
    IF st.err # "none"
    THEN [err |-> st.err, why |-> st.why, odm_req |-> <<>>, produced_targets |-> <<>>]
    ELSE [err |-> "none", why |-> "none",
          odm_req |-> <<Request(DecId(decision_id, slot, tok), PopEmpty(st.co))>>,
          produced_targets |-> st.produced]

\* Returns (request, produced_targets), or raises
_build_by_odm_keys(slot, external_flat, mapping, decision_id, tok) ==
    Finish(Resolve(external_flat, mapping), slot, decision_id, tok)

----------------------------------------------------------------------------
(* build_request_from_mapping_file and get_request_json *)

SeqSet(xs) == {xs[i] : i \in 1..Len(xs)}

\* lines 71-72: the required targets that were not produced
MissingRequired(required_odm, produced_targets) ==
    {t \in SeqSet(required_odm) : t \notin SeqSet(produced_targets)}

\* The outcome of a call: the exception (err, why, and the targets it names), the
\* value returned (<<>>: none), the slot self.odm_request after the call, and the
\* produced_targets of the run (<<>> when _build_by_odm_keys did not return).
Outcome(err, why, missing, ret, slot, produced) ==
    [err |-> err, why |-> why, missing |-> missing, ret |-> ret, slot |-> slot,
     produced_targets |-> produced]

\* The assignment of line 76 moved before the validation of lines 70-74: a build
\* that raises for missing required targets has stored its request
Validate_StoresFirst(b, slot, required_odm, validate_required) ==
    LET missing_required == MissingRequired(required_odm, b.produced_targets)
    IN  IF b.err # "none" THEN Outcome(b.err, b.why, {}, <<>>, slot, <<>>)
        ELSE IF validate_required /\ missing_required # {}
        THEN Outcome("ValueError", "missing_required", missing_required, <<>>, b.odm_req,
                     b.produced_targets)
        ELSE Outcome("none", "none", {}, b.odm_req, b.odm_req, b.produced_targets)

\* lines 68-77, b being what _build_by_odm_keys did: its exception propagates; else
\* the validation, the assignment to self.odm_request and the return
Validate(b, slot, required_odm, validate_required) ==
    LET missing_required == MissingRequired(required_odm, b.produced_targets)
    IN  IF b.err # "none" THEN Outcome(b.err, b.why, {}, <<>>, slot, <<>>)
        ELSE IF validate_required /\ missing_required # {}
        THEN Outcome("ValueError", "missing_required", missing_required, <<>>, slot,
                     b.produced_targets)
        ELSE Outcome("none", "none", {}, b.odm_req, b.odm_req, b.produced_targets)

\* external_flat is [isdict, d]; mapping_file is [exists, doc], the document at the
\* path the call resolves.
build_request_from_mapping_file(slot, external_flat, mapping_file, decision_id, validate_required, tok) ==
    IF ~external_flat.isdict THEN Outcome("TypeError", "not_dict", {}, <<>>, slot, <<>>)
    ELSE IF ~mapping_file.exists
    THEN Outcome("FileNotFoundError", "no_mapping_file", {}, <<>>, slot, <<>>)
    ELSE Validate(_build_by_odm_keys(slot, external_flat.d, mapping_file.doc, decision_id, tok),
                  slot, mapping_file.doc.required_odm, validate_required)

\* json.dumps of a request: its members in the order of the dict, each with its path
Member(path, value) == [path |-> path, value |-> value]

RECURSIVE EntryMembers(_, _)
EntryMembers(key, es) ==
    IF es = <<>> THEN <<>>
    ELSE <<Member(<<"coRequest", key, Head(es).name>>, Head(es).value)>>
         \o EntryMembers(key, Tail(es))

RECURSIVE CoMembers(_)
CoMembers(co) ==
    IF co = <<>> THEN <<>>
    ELSE (IF Head(co)[2].coll THEN EntryMembers(Head(co)[1], Head(co)[2].es)
          ELSE <<Member(<<"coRequest", Head(co)[1]>>, Head(co)[2].v)>>)
         \o CoMembers(Tail(co))

JsonDumps(req) == <<Member(<<"__DecisionID__">>, req.DecisionID)>> \o CoMembers(req.coRequest)

\* lines 84-86
get_request_json(slot) ==
    IF slot = <<>> THEN [err |-> "RuntimeError", text |-> <<>>]
    ELSE [err |-> "none", text |-> JsonDumps(slot[1])]

\* lines 35-37: the slot after construction
NewSlot(decision_id) ==
    IF Truthy(decision_id) THEN <<Request(decision_id, <<>>)>> ELSE <<>>

----------------------------------------------------------------------------
(* Inputs *)

\* The calls one behaviour makes on the engines
MaxCalls == 3

Engines == {"e1", "e2"}

S_P == <<"P">>

S_Blank == <<" ">>

S_Padded == <<" ", "a", "b", " ">>

S_Csv == <<"1", ",", " ", "2", ";", "3">>

S_12 == <<"1", "2">>

S_Iso == <<"2", "0", "2", "1", "-", "0", "5", "-", "1", "0">>

S_Dmy == <<"1", "5", "/", "0", "8", "/", "2", "0", "2", "3">>

F_Dmy == <<"%", "d", "/", "%", "m", "/", "%", "Y">>

S_Particular == <<"P", "A", "R", "T">>

\* Values a flat record carries: str, int, float, bool, date, None
RecordValues ==
    {PyNone, PyStr(<<>>), PyStr(S_Blank), PyStr(S_P), PyStr(S_Padded), PyStr(S_Csv),
     PyStr(S_12), PyStr(S_Iso), PyStr(S_Dmy), PyInt(5), PyInt(0), PyFloat(2),
     PyBool(TRUE), PyDate(S_Iso)}

\* Values a mapping document (JSON) carries as a default or a constant
JsonValues ==
    {PyNone, PyStr(S_P), PyStr(S_12), PyInt(5), PyInt(0), PyBool(FALSE),
     PyList(<<PyInt(1), PyStr(S_12)>>), PyList(<<PyStr(S_P)>>)}

\* Every combination of directives, each with one setting
Cfgs ==
    {[has_default |-> dv # <<>>, default |-> IF dv # <<>> THEN dv[1] ELSE PyNone,
      map_from |-> mf, map |-> NoTable,
      split_csv |-> sp, has_date_in |-> di, date_in |-> IF di THEN PyStr(F_Dmy) ELSE PyNone,
      as_date |-> ad, strip |-> st, upper |-> up, lower |-> lo,
      bool_map |-> bm, has_scale |-> sc, scale |-> IF sc THEN PyInt(2) ELSE PyNone] :
        dv \in {<<>>, <<PyStr(S_Csv)>>, <<PyList(<<PyStr(S_P)>>)>>},
        mf \in {NoTable, Table(S_P :> PyStr(S_Particular))},
        sp \in BOOLEAN, di \in BOOLEAN, ad \in BOOLEAN,
        st \in BOOLEAN, up \in BOOLEAN, lo \in BOOLEAN,
        bm \in {NoTable, Table(<<"S">> :> PyBool(TRUE) @@ <<"N">> :> PyBool(FALSE))},
        sc \in BOOLEAN}

\* The alias "map", and an empty "map_from" beside it
AliasCfgs ==
    {[EmptyCfg EXCEPT !.map_from = mf, !.map = Table(S_P :> PyStr(S_Particular))] :
        mf \in {NoTable, Table(<<>>)}}

----------------------------------------------------------------------------
(* Direct calls of the helpers *)

NoProbe == [op |-> "none"]

ApplyTransformCall ==
    \E value \in RecordValues, cfg \in Cfgs \cup AliasCfgs :
        /\ probe = NoProbe
        /\ probe' = [op |-> "_apply_transform", value |-> value, cfg |-> cfg,
                     out |-> _apply_transform(value, cfg)]
        /\ UNCHANGED <<odm_request, call, ncalls, built>>

\* co as _build_by_odm_keys hands it over: the five keys, here with nothing yet
\* or with one entry
CoBefore ==
    {SetEmpty(<<>>, CollKeys),
     DictSet(SetEmpty(<<>>, CollKeys), "listOfDoubleVariables",
             Coll(<<Entry("x", PyList(<<PyFloat(1)>>))>>))}

AddVarCall ==
    \E co \in CoBefore, vtype \in VTypeSet \cup {"bogus"}, name \in {"x", "y"},
       value \in RecordValues \cup JsonValues \cup {PyList(<<>>), SplitCsv(PyStr(S_Csv))} :
        /\ probe = NoProbe
        /\ probe' = [op |-> "_add_var", co |-> co, vtype |-> vtype, name |-> name,
                     value |-> value, out |-> _add_var(co, vtype, name, value)]
        /\ UNCHANGED <<odm_request, call, ncalls, built>>

----------------------------------------------------------------------------
(* Mapping documents and records *)

Doc(cc, cf, cv, vs, req) ==
    [constants_co_fields |-> cc, co_fields |-> cf, constants_variables |-> cv,
     variables |-> vs, required_odm |-> req]

File(doc) == [exists |-> TRUE, doc |-> doc]

\* os.path.exists(path) is false
NoFile == [exists |-> FALSE, doc |-> Doc(<<>>, <<>>, <<>>, <<>>, <<>>)]

Flat(d) == [isdict |-> TRUE, d |-> d]

\* external_flat that is no dict
NotADict == [isdict |-> FALSE, d |-> <<>>]

NoDefault(c) == [c EXCEPT !.has_default = FALSE, !.default = PyNone]

\* Rules on source key "k" (which a record may carry) and "j" (which none does)
ScalarRules ==
    {Full("k", [EmptyCfg EXCEPT !.map_from = Table(S_P :> PyStr(S_Particular))]),
     Full("j", EmptyCfg),
     Full(NoKey, [EmptyCfg EXCEPT !.has_default = TRUE, !.default = PyInt(5)])}

Rules ==
    {Shorthand("k"),
     Full("k", [EmptyCfg EXCEPT !.has_default = TRUE, !.default = PyStr(S_12)]),
     Full("k", [EmptyCfg EXCEPT !.as_date = TRUE]),
     Full("k", [EmptyCfg EXCEPT !.split_csv = TRUE]),
     Full("j", EmptyCfg),
     Full("j", [EmptyCfg EXCEPT !.has_default = TRUE, !.default = PyStr(S_12)])}

A_Const == PyStr(<<"A">>)

\* The scalar part of a document: constants.co_fields and co_fields
ScalarParts ==
    {<<cc, cf>> :
        cc \in {<<>>, <<(<<"x", A_Const>>)>>},
        cf \in {<<>>} \cup {<<(<<"x", r>>)>> : r \in ScalarRules}
              \cup {<<(<<"stringVariables", Shorthand("k")>>)>>}}

\* constants.variables: nothing, or one constant "x" of one type
ConstVarParts ==
    {<<>>, <<(<<"string", <<(<<"x", PyNone>>)>> >>)>>}
    \cup {<<(<<t, <<(<<"x", PyStr(S_12)>>)>> >>)>> : t \in VTypeSet \cup {"bogus"}}

\* variables: nothing, one rule "x" of one type, or rules of two types
VariableParts ==
    {<<>>} \cup {<<(<<t, <<(<<"x", r>>)>> >>)>> : t \in VTypeSet \cup {"bogus"}, r \in Rules}
    \cup {<< <<"string", <<(<<"x", Shorthand("k")>>), (<<"y", Full("j", EmptyCfg)>>)>> >>,
             <<"double", <<(<<"x", Shorthand("k")>>)>> >> >>}

\* required_odm with validate_required
RequiredParts == {<<(<<>>), TRUE>>, <<(<<"x">>), TRUE>>, <<(<<"x", "y">>), TRUE>>, <<(<<"x", "y">>), FALSE>>}


BuildRecords ==
    {Flat(<<>>)} \cup {Flat("k" :> v) : v \in {PyNone, PyStr(S_P), PyStr(S_12), PyStr(S_Csv), PyStr(S_Iso)}}

\* The documents of the engine's life: one that builds, and one per way of failing
D_Ok ==
    Doc(<<(<<"x", A_Const>>)>>,
        <<(<<"x", Full("k", [EmptyCfg EXCEPT !.map_from = Table(S_P :> PyStr(S_Particular))])>>)>>,
        <<>>, << <<"string", <<(<<"y", Shorthand("k")>>)>> >> >>, <<"x">>)

D_Required == Doc(<<>>, <<(<<"x", Shorthand("k")>>)>>, <<>>, <<>>, <<"x", "y">>)

D_Date ==
    Doc(<<>>, <<>>, <<>>,
        << <<"date", <<(<<"x", Full("k", [EmptyCfg EXCEPT !.as_date = TRUE])>>)>> >> >>, <<>>)

D_Coercion == Doc(<<>>, <<>>, <<>>, << <<"double", <<(<<"x", Shorthand("k")>>)>> >> >>, <<>>)

D_Unsupported == Doc(<<>>, <<>>, <<>>, << <<"bogus", <<(<<"x", Shorthand("k")>>)>> >> >>, <<>>)

LifeFiles == {NoFile, File(D_Ok), File(D_Required), File(D_Date), File(D_Coercion), File(D_Unsupported)}

LifeRecords == {NotADict, Flat(<<>>), Flat("k" :> PyStr(S_P))}

I_C0 == PyStr(<<"C", "0">>)

I_D1 == PyStr(<<"D", "1">>)

\* decision_id: None, the empty string, an identifier
DecisionIds == {PyNone, PyStr(<<>>), I_D1}

CtorIds == {PyNone, PyStr(<<>>), I_C0}

\* What uuid4 may give
Tokens12 == {<<"a">>, <<"b">>}

----------------------------------------------------------------------------
(* The public calls *)

NoCall == [op |-> "none", n |-> 0]

\* build_request_from_mapping_file on engine e; the call is logged with the slot
\* before it.
Build(e, external_flat, mapping_file, decision_id, validate_required, tok) ==
    /\ call' = [call EXCEPT ![e] =
                   [op |-> "build", n |-> ncalls + 1, external_flat |-> external_flat,
                    mapping_file |-> mapping_file, decision_id |-> decision_id,
                    validate_required |-> validate_required, tok |-> tok,
                    before |-> odm_request[e],
                    out |-> build_request_from_mapping_file(odm_request[e], external_flat,
                                mapping_file, decision_id, validate_required, tok)]]
    /\ odm_request' = [odm_request EXCEPT ![e] = call'[e].out.slot]
    /\ built' = [built EXCEPT ![e] = @ \/ call'[e].out.err = "none"]
    /\ ncalls' = ncalls + 1
    /\ UNCHANGED probe

\* get_request_json on engine e
GetRequestJson(e) ==
    /\ call' = [call EXCEPT ![e] =
                   [op |-> "get_request_json", n |-> ncalls + 1, before |-> odm_request[e],
                    out |-> get_request_json(odm_request[e])]]
    /\ ncalls' = ncalls + 1
    /\ UNCHANGED <<odm_request, built, probe>>

\* Engines as __init__ leaves them, each constructed with a decision_id of ids
InitEngines(ids) ==
    /\ odm_request \in {[e \in Engines |-> NewSlot(f[e])] : f \in [Engines -> ids]}
    /\ call = [e \in Engines |-> NoCall]
    /\ built = [e \in Engines |-> FALSE]
    /\ ncalls = 0
    /\ probe = NoProbe

----------------------------------------------------------------------------
(* Specifications *)

\* The helpers called directly, once, on every input
InitPure == InitEngines({PyNone})

NextPure == ApplyTransformCall \/ AddVarCall

SpecPure == InitPure /\ [][NextPure]_vars

\* One build on a fresh engine, over every document made of the parts above
InitBuild == InitEngines({PyNone})

BuildOnce ==
    /\ ncalls = 0
    /\ \E external_flat \in BuildRecords, sp \in ScalarParts, cv \in ConstVarParts,
          vs \in VariableParts, req \in RequiredParts :
           Build("e1", external_flat, File(Doc(sp[1], sp[2], cv, vs, req[1])), PyNone, req[2], <<"a">>)

NextBuild == BuildOnce

SpecBuild == InitBuild /\ [][NextBuild]_vars

\* The life of one engine: builds that succeed and fail in every way (validating,
\* and once not), and get_request_json, in any order
Init ==
    /\ InitEngines(CtorIds)
    /\ odm_request["e2"] = <<>>

BuildCall ==
    /\ ncalls < MaxCalls
    /\ \E external_flat \in LifeRecords, decision_id \in DecisionIds, tok \in Tokens12,
          fv \in {<<f, TRUE>> : f \in LifeFiles} \cup {<<File(D_Required), FALSE>>} :
           Build("e1", external_flat, fv[1], decision_id, fv[2], tok)

JsonCall ==
    /\ ncalls < MaxCalls
    /\ GetRequestJson("e1")

Next == BuildCall \/ JsonCall

Spec == Init /\ [][Next]_vars

\* Two engines building from the same arguments
InitTwo == InitEngines({PyNone, I_C0})

BuildEither ==
    /\ ncalls < MaxCalls
    /\ \E e \in Engines, mapping_file \in {File(D_Ok), File(D_Required)},
          decision_id \in {PyNone, I_D1}, tok \in Tokens12 :
           Build(e, Flat("k" :> PyStr(S_P)), mapping_file, decision_id, TRUE, tok)

NextTwo == BuildEither

SpecTwo == InitTwo /\ [][NextTwo]_vars

----------------------------------------------------------------------------
(* What the claims speak of *)

\* _build_by_odm_keys returned: the call reached the validation of required targets
BuildRan(c) == c.op = "build" /\ c.out.why \in {"none", "missing_required"}

BuildOk(c) == c.op = "build" /\ c.out.err = "none"

ScalarRulesFor(doc, n) ==
    {doc.co_fields[i][2] : i \in {j \in 1..Len(doc.co_fields) : doc.co_fields[j][1] = n}}

\* The names and the things (rules, constants) a group dict holds for type t
OfType(groups, t) ==
    UNION {SeqSet(groups[i][2]) : i \in {j \in 1..Len(groups) : groups[j][1] = t}}

OfAnyType(groups) == UNION {SeqSet(groups[i][2]) : i \in 1..Len(groups)}

TypedRulesFor(doc, t, n) == {nr[2] : nr \in {x \in OfType(doc.variables, t) : x[1] = n}}

AllRulesFor(doc, n) ==
    ScalarRulesFor(doc, n) \cup {nr[2] : nr \in {x \in OfAnyType(doc.variables) : x[1] = n}}

ConstVarNames(doc, t) == {nv[1] : nv \in OfType(doc.constants_variables, t)}

AllNames(doc) ==
    Keys(doc.constants_co_fields) \cup Keys(doc.co_fields)
    \cup {x[1] : x \in OfAnyType(doc.constants_variables)}
    \cup {x[1] : x \in OfAnyType(doc.variables)} \cup SeqSet(doc.required_odm)

KeyPresent(spec, rec) == SrcKey(spec) \in DOMAIN rec

\* The rule resolves: its source key is in the record, or it is missing and a
\* default is configured
Resolves(spec, rec) == KeyPresent(spec, rec) \/ CfgOf(spec).has_default

\* The value a rule that resolves maps to
MappedValue(spec, rec) ==
    IF KeyPresent(spec, rec) THEN _apply_transform(rec[SrcKey(spec)], CfgOf(spec)).value
    ELSE CfgOf(spec).default

EntriesNamed(es, n) == SelectSeq(es, LAMBDA en : en.name = n)

\* The keys of co that hold a collection, and those that hold a scalar
CollsIn(co) == {co[i][1] : i \in {j \in 1..Len(co) : co[j][2].coll}}

ScalarsIn(co) == {co[i][1] : i \in {j \in 1..Len(co) : ~co[j][2].coll}}

CollOrEmpty(co, key) == IF key \in CollsIn(co) THEN Lookup(co, key).es ELSE <<>>

\* C1: a name that is both a constant and a mapped rule that resolves carries the
\* mapped value, the constant being overwritten: in the scalars, and in each typed
\* collection, where the name then has a single entry, holding the mapped value.
C1_OverwriteOrder ==
    \A e \in Engines :
        BuildOk(call[e]) =>
            LET doc == call[e].mapping_file.doc
                rec == call[e].external_flat.d
                co == call[e].out.ret[1].coRequest
            IN  /\ \A n \in Keys(doc.constants_co_fields) \ CollKeySet :
                       \A spec \in ScalarRulesFor(doc, n) :
                           Resolves(spec, rec) =>
                               n \in ScalarsIn(co) /\ Lookup(co, n).v = MappedValue(spec, rec)
                /\ \A t \in VTypeSet :
                       \A n \in ConstVarNames(doc, t) :
                           \A spec \in TypedRulesFor(doc, t, n) :
                               (Resolves(spec, rec) /\ MappedValue(spec, rec) # PyNone) =>
                                   EntriesNamed(CollOrEmpty(co, CollOf(t)), n)
                                       = <<Entry(n, Coerce(t, MappedValue(spec, rec)).value)>>

\* C2: a name is among the produced targets exactly when some scalar or typed rule
\* for it found its source key in the record or had a default while the key was
\* missing; nothing else, such as a constant, makes a name produced.
C2_ProducedIffResolved ==
    \A e \in Engines :
        BuildRan(call[e]) =>
            LET doc == call[e].mapping_file.doc
                rec == call[e].external_flat.d
            IN  SeqSet(call[e].out.produced_targets)
                    = {n \in AllNames(doc) : \E spec \in AllRulesFor(doc, n) : Resolves(spec, rec)}

\* C3: with validation, build fails for missing required targets exactly when a
\* required name is not produced, naming all of them and only them; in particular
\* a required target whose rules find no source key and have no default makes the
\* build fail naming it; without validation it never fails so.
C3_MissingRequired ==
    \A e \in Engines :
        BuildRan(call[e]) =>
            LET c == call[e]
                doc == c.mapping_file.doc
                rec == c.external_flat.d
                required == SeqSet(doc.required_odm)
                produced == SeqSet(c.out.produced_targets)
            IN  /\ c.validate_required =>
                       /\ (c.out.why = "missing_required") <=> (required \ produced # {})
                       /\ c.out.missing = required \ produced
                       /\ \A n \in required :
                              (AllRulesFor(doc, n) # {}
                               /\ \A spec \in AllRulesFor(doc, n) : ~Resolves(spec, rec))
                                  => (c.out.why = "missing_required" /\ n \in c.out.missing)
                /\ ~c.validate_required => c.out.err = "none"

\* The identifier of the request a build returned
BuiltId(c) == c.out.ret[1].DecisionID

\* C4 as claimed: the identifier is the override whenever one is passed, else the
\* identifier the engine holds, else a fresh token.
C4_OverrideWhenPassed ==
    \A e \in Engines :
        BuildOk(call[e]) =>
            LET c == call[e]
            IN  /\ c.decision_id # PyNone => BuiltId(c) = c.decision_id
                /\ (c.decision_id = PyNone /\ c.before # <<>>) => BuiltId(c) = c.before[1].DecisionID
                /\ (c.decision_id = PyNone /\ c.before = <<>>) => BuiltId(c) = FreshId(c.tok)

\* C4, amended: the identifier is the override when a non-empty one is passed (None
\* and the empty string are no override), else the identifier the engine holds
\* (from construction or from the last build that returned), else a fresh token;
\* so builds without override on an engine that holds one keep its identifier.
C4_IdentifierPrecedence ==
    \A e \in Engines :
        BuildOk(call[e]) =>
            LET c == call[e]
                passed == c.decision_id.t = "str" /\ c.decision_id.s # <<>>
            IN  /\ passed => BuiltId(c) = c.decision_id
                /\ (~passed /\ c.before # <<>>) => BuiltId(c) = c.before[1].DecisionID
                /\ (~passed /\ c.before = <<>>) =>
                       BuiltId(c) = PyStr(<<"D", "e", "c", "i", "s", "i", "o", "n", "_">> \o c.tok)
                /\ odm_request[e] # <<>> /\ odm_request[e][1].DecisionID = BuiltId(c)

\* An engine that took its identifier from uuid4 in an earlier build builds again
\* without override and keeps it
C4_Witness ==
    \E e \in Engines :
        /\ BuildOk(call[e])
        /\ call[e].n >= 2
        /\ call[e].decision_id = PyNone
        /\ call[e].before # <<>>
        /\ \E tok \in Tokens12 : call[e].before[1].DecisionID = FreshId(tok) /\ tok # call[e].tok
        /\ BuiltId(call[e]) = call[e].before[1].DecisionID

\* C5: get_request_json before any build has returned on the engine, however it
\* was constructed, raises and returns no text; after one it returns the encoding of
\* the request built last.
C5_NoRequestBuilt ==
    \A e \in Engines :
        call[e].op = "get_request_json" =>
            /\ ~built[e] => (call[e].out.err = "RuntimeError" /\ call[e].out.text = <<>>)
            /\ built[e] => (call[e].out.err = "none"
                            /\ call[e].out.text = JsonDumps(call[e].before[1]))

\* Some constant or rule of type t added a value that is not None
AddedNonNull(doc, rec, t) ==
    \/ \E nv \in OfType(doc.constants_variables, t) : nv[2] # PyNone
    \/ \E nr \in OfType(doc.variables, t) :
           Resolves(nr[2], rec) /\ MappedValue(nr[2], rec) # PyNone

\* C6: in a request a build returned, each of the five collection keys is absent or
\* maps to a non-empty sequence of entries, and is there exactly when a constant or
\* rule of its type added a value that is not None; no other key holds a collection.
C6_EmptyCollectionsOmitted ==
    \A e \in Engines :
        BuildOk(call[e]) =>
            LET doc == call[e].mapping_file.doc
                rec == call[e].external_flat.d
                co == call[e].out.ret[1].coRequest
            IN  /\ CollsIn(co) \subseteq CollKeySet
                /\ ScalarsIn(co) \cap CollKeySet = {}
                /\ \A t \in VTypeSet :
                       /\ CollOf(t) \in Keys(co) <=> AddedNonNull(doc, rec, t)
                       /\ CollOf(t) \in Keys(co) =>
                              /\ Lookup(co, CollOf(t)).es # <<>>
                              /\ \A i \in 1..Len(Lookup(co, CollOf(t)).es) :
                                     Lookup(co, CollOf(t)).es[i].value # PyNone

\* A string rule resolved to None, so that stringVariables is no key, while a
\* constant of another type makes its collection one
C6_Witness ==
    /\ BuildOk(call["e1"])
    /\ LET doc == call["e1"].mapping_file.doc
           rec == call["e1"].external_flat.d
           co == call["e1"].out.ret[1].coRequest
       IN  /\ \E nr \in OfType(doc.variables, "string") :
                  Resolves(nr[2], rec) /\ MappedValue(nr[2], rec) = PyNone
           /\ "stringVariables" \notin Keys(co)
           /\ OfType(doc.constants_variables, "double") # {}
           /\ CollsIn(co) = {"doubleVariables"}

\* C7: _apply_transform raises nowhere but in the date normalization (step 4)
C7_RaisesOnlyAtDateStep ==
    (probe.op = "_apply_transform" /\ probe.out.err # "none") => probe.out.step = 4

\* C9: _add_var of type list_double appends, for a sequence, its elements as floats;
\* for a scalar, the one-element list of the scalar as a float; and raises, adding
\* no entry, when an element does not convert.
C9_ListDouble ==
    (probe.op = "_add_var" /\ probe.vtype = "list_double" /\ probe.value # PyNone) =>
        LET key == "listOfDoubleVariables"
            elems == IF probe.value.t = "list" THEN probe.value.l ELSE <<probe.value>>
            convertible == \A i \in 1..Len(elems) : ToFloat(elems[i]).err = "none"
            floats == [i \in 1..Len(elems) |-> ToFloat(elems[i]).value]
        IN  IF convertible
            THEN /\ probe.out.err = "none"
                 /\ Lookup(probe.out.co, key).es
                        = Append(Lookup(probe.co, key).es, Entry(probe.name, PyList(floats)))
            ELSE /\ probe.out.err # "none"
                 /\ probe.out.co = probe.co

SameArguments(c, d) ==
    /\ c.op = "build" /\ d.op = "build"
    /\ c.external_flat = d.external_flat
    /\ c.mapping_file = d.mapping_file
    /\ c.decision_id = d.decision_id
    /\ c.validate_required = d.validate_required

\* C8 as claimed: two builds with the same record, document and override return the
\* same request, identifier included, whatever engine ran them and whatever it
\* built before.
C8_Determinism ==
    \A e \in Engines, f \in Engines :
        SameArguments(call[e], call[f]) =>
            (call[e].out.err = call[f].out.err /\ call[e].out.ret = call[f].out.ret)

\* C8, amended: two builds with the same record, document and override end the same
\* way (the same exception naming the same targets, or a return) and return the same
\* coRequest; the identifier, and so the whole request, is the same when a non-empty
\* override is passed.
C8_DeterminismGivenOverride ==
    \A e \in Engines, f \in Engines :
        SameArguments(call[e], call[f]) =>
            /\ call[e].out.err = call[f].out.err
            /\ call[e].out.why = call[f].out.why
            /\ call[e].out.missing = call[f].out.missing
            /\ BuildOk(call[e]) =>
                   /\ call[e].out.ret[1].coRequest = call[f].out.ret[1].coRequest
                   /\ Truthy(call[e].decision_id) => call[e].out.ret = call[f].out.ret

\* Two engines, one holding an identifier, built the same request from the same
\* arguments with an override
C8_Witness ==
    /\ SameArguments(call["e1"], call["e2"])
    /\ BuildOk(call["e1"])
    /\ call["e1"].decision_id = I_D1
    /\ call["e1"].before # call["e2"].before
    /\ call["e1"].tok # call["e2"].tok
    /\ call["e1"].out.ret = call["e2"].out.ret

\* C10: a build that raises leaves self.odm_request as it was, so that
\* get_request_json and the held identifier are as before; the slot changes only in
\* a build that returns, to what it returns.
C10_FailedBuildKeepsSlot ==
    [][\A e \in Engines :
          /\ (call'[e].n # call[e].n /\ call'[e].op = "build" /\ call'[e].out.err # "none") =>
                 /\ odm_request'[e] = odm_request[e]
                 /\ get_request_json(odm_request'[e]) = get_request_json(odm_request[e])
                 /\ HeldId(odm_request'[e]) = HeldId(odm_request[e])
          /\ odm_request'[e] # odm_request[e] =>
                 /\ call'[e].n # call[e].n
                 /\ call'[e].op = "build"
                 /\ call'[e].out.err = "none"
                 /\ odm_request'[e] = call'[e].out.ret]_vars

\* A build raised for missing required targets on an engine that held the request
\* of an earlier build, and the engine still holds it
C10_Witness ==
    /\ call["e1"].op = "build"
    /\ call["e1"].out.why = "missing_required"
    /\ built["e1"]
    /\ call["e1"].before # <<>>
    /\ odm_request["e1"] = call["e1"].before

====
